---- MODULE Spec2Model ----
(***************************************************************************)
(* Outreach escalation of the rental hunter: the contact initiation pass   *)
(* and the follow-up pass of RentalScheduler (src/scrapers/scheduler.py),  *)
(* the dispatch functions of EmailSender and PhoneCaller they call, the    *)
(* property status endpoint of the web application, and the store rows     *)
(* (Property, Contact) of src/database/models.py they read and write.      *)
(*                                                                         *)
(* Time is counted in hours.  A timestamp column that is NULL is the value *)
(* NULL.  A pass is a run record that lives from the moment the scheduler  *)
(* starts the job until the job's final commit; its ORM session holds the  *)
(* rows it loaded and the changes it has not committed yet.                *)
(*                                                                         *)
(* Three further specifications share the module: SpecScheduler, the       *)
(* triggers of the four jobs _schedule_jobs registers; SpecClassify,       *)
(* DuplicateDetector.is_duplicate applied to raw listings against a store; *)
(* and SpecListings, the collection pass scrape_all_sites and the          *)
(* retention pass daily_cleanup over the listing columns of Property.      *)
(* Spec itself follows the outreach columns only and keeps no listing      *)
(* columns.                                                                *)
(***************************************************************************)
EXTENDS Integers, Sequences, FiniteSets, TLC

VARIABLES now, properties, contacts, initRuns, followRuns,
          running, lastTrigger,
          listings, scrapeRuns, classified,
          scraping_logs, scrapePass, communications

\* the scheduler's count of running instances per job, and the last trigger it
\* processed
schedulerVars == <<running, lastTrigger>>
\* the listing columns of the Property rows, the collection runs in flight, and
\* the classifications made so far
listingVars == <<listings, scrapeRuns, classified>>

\* the ScrapingLog rows and the collection pass in flight
collectionVars == <<scraping_logs, scrapePass>>

vars == <<now, properties, contacts, initRuns, followRuns,
          running, lastTrigger, listings, scrapeRuns, classified,
          scraping_logs, scrapePass, communications>>

(***************************************************************************)
(* Bounds of the model.                                                    *)
(***************************************************************************)
\* number of Property rows in the store
NumProperties == 1
\* last hour the clock of the model reaches
MaxNow == 72

(***************************************************************************)
(* Program constants.                                                      *)
(***************************************************************************)
MAX_CONTACT_ATTEMPTS == 3
FOLLOW_UP_DELAY_HOURS == 24

NULL == 0 - 1

\* hour at which the model starts; rows already in the store are older
StartHour == FOLLOW_UP_DELAY_HOURS
\* steps by which the clock advances between two operations
AdvanceSteps == {12, 24}

PropertyIds == 1..NumProperties

\* ContactStatus, src/database/models.py
PENDING == "pending"
EMAIL_SENT == "email_sent"
PHONE_CALLED == "phone_called"
CS_RESPONDED == "responded"
NO_RESPONSE == "no_response"
CS_FAILED == "failed"
BLOCKED == "blocked"
ContactStatus == {PENDING, EMAIL_SENT, PHONE_CALLED, CS_RESPONDED, NO_RESPONSE, CS_FAILED, BLOCKED}

\* PropertyStatus, src/database/models.py
PS_NEW == "new"
CONTACTED == "contacted"
PS_RESPONDED == "responded"
VISIT_SCHEDULED == "visit_scheduled"
VISITED == "visited"
APPLICATION_SENT == "application_sent"
ACCEPTED == "accepted"
REJECTED == "rejected"
UNAVAILABLE == "unavailable"
DUPLICATE == "duplicate"
PropertyStatus == {PS_NEW, CONTACTED, PS_RESPONDED, VISIT_SCHEDULED, VISITED,
                   APPLICATION_SENT, ACCEPTED, REJECTED, UNAVAILABLE, DUPLICATE}

\* the kinds of message a dispatch function sends
INITIAL_EMAIL == "initial_email"
FOLLOW_UP_EMAIL == "follow_up_email"
FOLLOW_UP_CALL == "follow_up_call"
URGENT_EMAIL == "urgent_follow_up_email"

Min(S) == CHOOSE x \in S : \A y \in S : x <= y
Max(S) == CHOOSE x \in S : \A y \in S : y <= x

(***************************************************************************)
(* Store rows.                                                             *)
(***************************************************************************)
\* a Property row: the columns the passes read and write
Property(status, still_available) ==
    [status |-> status, still_available |-> still_available]

\* a Contact row; email and phone say whether the column is a non-empty string
Contact(property_id, email, phone, status, contact_attempts, last_contact_attempt) ==
    [property_id |-> property_id, email |-> email, phone |-> phone,
     status |-> status, contact_attempts |-> contact_attempts,
     last_contact_attempt |-> last_contact_attempt,
     next_contact_scheduled |-> NULL, responded |-> FALSE]

\* Contact(...) as initiate_contacts constructs it: empty details, column defaults
NewContact(property_id) == Contact(property_id, FALSE, FALSE, PENDING, 0, NULL)

\* Contact rows an existing database file may hold when the program starts
StoredContactRows(p) ==
    {Contact(p, TRUE, TRUE, PENDING, 0, NULL),
     Contact(p, TRUE, TRUE, EMAIL_SENT, 0, NULL),
     Contact(p, TRUE, TRUE, EMAIL_SENT, 0, 0),
     Contact(p, TRUE, TRUE, EMAIL_SENT, 1, 0),
     Contact(p, TRUE, TRUE, PHONE_CALLED, 2, 0),
     Contact(p, TRUE, TRUE, PHONE_CALLED, MAX_CONTACT_ATTEMPTS, 0)}

\* db.query(Contact).filter(Contact.property_id == p).first()
ContactsOf(tbl, p) == {c \in DOMAIN tbl : tbl[c].property_id = p}
\* FirstContact for a lookup that finds no Contact
FirstContact_Unseen(tbl, p) == NULL
FirstContact(tbl, p) == IF ContactsOf(tbl, p) = {} THEN NULL ELSE Min(ContactsOf(tbl, p))

\* primary key the store gives the next inserted Contact
NextContactId(tbl) == IF DOMAIN tbl = {} THEN 1 ELSE Max(DOMAIN tbl) + 1

\* rows of a query come back in primary-key order
RECURSIVE InIdOrder(_)
InIdOrder(S) == IF S = {} THEN <<>> ELSE <<Min(S)>> \o InIdOrder(S \ {Min(S)})

(***************************************************************************)
(* Channel collaborators.  The boolean transport stands for everything the *)
(* SMTP server or Twilio decides: a refused connection (the function       *)
(* returns False) and an exception (caught, the function returns False).   *)
(***************************************************************************)
\* PhoneCaller.__init__: self.client is set when the Twilio credentials are configured
TwilioClient == TRUE

\* EmailSender.send_initial_contact_email: reads the Contact in a session of its own
send_initial_contact_email(tbl, property_id, transport) ==
    LET contact == FirstContact(tbl, property_id)
    IN  IF contact = NULL \/ ~tbl[contact].email THEN FALSE ELSE transport

\* EmailSender.send_follow_up_email: contact is the row the caller's session holds
send_follow_up_email(contact, transport) ==
    IF ~contact.email THEN FALSE
    ELSE IF contact.property_id \notin DOMAIN properties THEN FALSE
    ELSE transport

\* EmailSender.send_urgent_follow_up_email
send_urgent_follow_up_email(contact, transport) ==
    IF ~contact.email THEN FALSE
    ELSE IF contact.property_id \notin DOMAIN properties THEN FALSE
    ELSE transport

\* PhoneCaller.make_follow_up_call
make_follow_up_call(contact, transport) ==
    IF ~TwilioClient THEN FALSE
    ELSE IF ~contact.phone THEN FALSE
    ELSE IF contact.property_id \notin DOMAIN properties THEN FALSE
    ELSE transport

\* send_follow_ups, "Determine next contact method": the message kind for a row
NextContactMethod(contact) ==
    IF contact.contact_attempts = 0 THEN FOLLOW_UP_EMAIL
    ELSE IF contact.contact_attempts = 1 THEN FOLLOW_UP_CALL
    ELSE URGENT_EMAIL

\* the call send_follow_ups makes for a row, and its result
FollowUpDispatch(contact, transport) ==
    IF NextContactMethod(contact) = FOLLOW_UP_EMAIL THEN send_follow_up_email(contact, transport)
    ELSE IF NextContactMethod(contact) = FOLLOW_UP_CALL THEN make_follow_up_call(contact, transport)
    ELSE send_urgent_follow_up_email(contact, transport)

\* Contact.schedule_follow_up
schedule_follow_up(contact, delay_hours) ==
    [contact EXCEPT !.next_contact_scheduled = now + delay_hours]

\* RecordAttempt without the stamp of last_contact_attempt
RecordAttempt_NoStamp(contact) ==
    schedule_follow_up([contact EXCEPT !.contact_attempts = @ + 1],
                       FOLLOW_UP_DELAY_HOURS)

\* send_follow_ups, "if success": the changes made to the session's row
RecordAttempt(contact) ==
    schedule_follow_up([contact EXCEPT !.contact_attempts = @ + 1,
                                       !.last_contact_attempt = now],
                       FOLLOW_UP_DELAY_HOURS)

\* NeedsFollowUp without the bound on contact_attempts
NeedsFollowUp_NoCap(contact, follow_up_time) ==
    /\ contact.status \in {EMAIL_SENT, PHONE_CALLED}
    /\ contact.responded = FALSE
    /\ contact.last_contact_attempt # NULL
    /\ contact.last_contact_attempt < follow_up_time

\* NeedsFollowUp with <= for the comparison of last_contact_attempt
NeedsFollowUp_NonStrict(contact, follow_up_time) ==
    /\ contact.status \in {EMAIL_SENT, PHONE_CALLED}
    /\ contact.responded = FALSE
    /\ contact.last_contact_attempt # NULL
    /\ contact.last_contact_attempt <= follow_up_time
    /\ contact.contact_attempts < MAX_CONTACT_ATTEMPTS

\* the filter of send_follow_ups' query; a NULL column makes a comparison false
NeedsFollowUp(contact, follow_up_time) ==
    /\ contact.status \in {EMAIL_SENT, PHONE_CALLED}
    /\ contact.responded = FALSE
    /\ contact.last_contact_attempt # NULL
    /\ contact.last_contact_attempt < follow_up_time
    /\ contact.contact_attempts < MAX_CONTACT_ATTEMPTS

\* the filter of initiate_contacts' query
IsNewProperty(property) ==
    /\ property.status = PS_NEW
    /\ property.still_available = TRUE

\* max_instances with a second instance allowed
max_instances_Two(job) == 2

\* add_job(..., max_instances=1): instances of one job that may run at a time
max_instances(job) == 1

SCRAPE_PROPERTIES == "scrape_properties"
INITIATE_CONTACTS == "initiate_contacts"
SEND_FOLLOW_UPS == "send_follow_ups"
DAILY_CLEANUP == "daily_cleanup"
JobIds == {SCRAPE_PROPERTIES, INITIATE_CONTACTS, SEND_FOLLOW_UPS, DAILY_CLEANUP}

\* statuses the model posts to /api/property/<id>/status
ApiStatusInputs == {PS_NEW, CONTACTED}

\* lastTrigger before the scheduler has processed any fire time
NoTrigger == [job |-> "none", late |-> 0, outcome |-> "none"]

\* no job instance running, no trigger processed yet
SchedulerIdle ==
    /\ running = [job \in JobIds |-> 0]
    /\ lastTrigger = NoTrigger

\* no listing columns kept, no collection run, nothing classified
NoListings ==
    /\ listings = <<>>
    /\ scrapeRuns = <<>>
    /\ classified = <<>>

\* no collection pass in flight
NoPass == [running |-> FALSE, cities |-> <<>>, log |-> 0]

\* no ScrapingLog row, no collection pass, no Communication row
NoLogs ==
    /\ scraping_logs = <<>>
    /\ scrapePass = NoPass
    /\ communications = <<>>

RemoveAt(seq, i) == SubSeq(seq, 1, i - 1) \o SubSeq(seq, i + 1, Len(seq))

(***************************************************************************)
(* Initial state: the clock at StartHour, every Property available, no     *)
(* pass running.  A Property either has no Contact yet and is new, or has  *)
(* one of the stored Contact rows: it is new while that Contact is         *)
(* PENDING and contacted afterwards.                                       *)
(***************************************************************************)
Init ==
    /\ now = StartHour
    /\ \E S \in SUBSET PropertyIds :
         /\ \E tbl \in [S -> UNION {StoredContactRows(p) : p \in PropertyIds}] :
              /\ \A c \in S : tbl[c].property_id = c
              /\ contacts = tbl
         \* a Property is CONTACTED once its Contact has left PENDING
         /\ properties = [p \in PropertyIds |->
                            Property(IF p \in S /\ contacts[p].status # PENDING
                                     THEN CONTACTED ELSE PS_NEW, TRUE)]
    /\ initRuns = <<>>
    /\ followRuns = <<>>
    /\ SchedulerIdle
    /\ NoListings
    /\ NoLogs

(***************************************************************************)
(* The clock.                                                              *)
(***************************************************************************)
Tick(d) ==
    /\ now + d <= MaxNow
    /\ now' = now + d
    /\ UNCHANGED <<properties, contacts, initRuns, followRuns>>
    /\ UNCHANGED <<schedulerVars, listingVars, collectionVars, communications>>

(***************************************************************************)
(* RentalScheduler.initiate_contacts                                       *)
(***************************************************************************)
\* the scheduler starts the job: the query for new properties
InitiateStart ==
    /\ Len(initRuns) < max_instances(INITIATE_CONTACTS)
    /\ LET new_properties == {p \in DOMAIN properties : IsNewProperty(properties[p])}
       IN  initRuns' = Append(initRuns,
                  [todo |-> InIdOrder(new_properties), contacted |-> {},
                   sent |-> <<>>, failed |-> {}])
    /\ UNCHANGED <<now, properties, contacts, followRuns>>
    /\ UNCHANGED <<schedulerVars, listingVars, collectionVars, communications>>

\* last_updated of the rows of a set an UPDATE is issued for (onupdate=utcnow, or
\* the handler's own assignment), for the rows whose listing columns are kept
Touch(tbl, ps) ==
    [p \in DOMAIN tbl |-> IF p \in ps THEN [tbl[p] EXCEPT !.last_updated = now] ELSE tbl[p]]

\* property_obj.status = CONTACTED for the rows of a set, as a commit writes it
MarkContacted(tbl, ps) ==
    [p \in DOMAIN tbl |-> IF p \in ps THEN [tbl[p] EXCEPT !.status = CONTACTED] ELSE tbl[p]]

\* ContactedAfterDispatch without the test of the result
ContactedAfterDispatch_Always(pending, property_id, success) ==
    pending \cup {property_id}

\* "if self.email_sender.send_initial_contact_email(property_obj):" the
\* properties whose status the session has set to CONTACTED, after a dispatch
ContactedAfterDispatch(pending, property_id, success) ==
    IF success THEN pending \cup {property_id} ELSE pending

\* one turn of the loop over new_properties
InitiateStep(i, transport) ==
    /\ i \in 1..Len(initRuns)
    /\ initRuns[i].todo # <<>>
    /\ LET run == initRuns[i]
           p == Head(run.todo)
           creates == FirstContact(contacts, p) = NULL
           tbl == IF creates
                  THEN contacts @@ (NextContactId(contacts) :> NewContact(p))
                  ELSE contacts
           c == FirstContact(tbl, p)
           success == send_initial_contact_email(tbl, p, transport)
           \* db.commit() after db.add(contact) also writes the statuses set so far
           pending == IF creates THEN {} ELSE run.contacted
       IN  /\ contacts' = tbl
           /\ properties' = IF creates THEN MarkContacted(properties, run.contacted)
                            ELSE properties
           /\ listings' = IF creates THEN Touch(listings, run.contacted) ELSE listings
           /\ initRuns' = [initRuns EXCEPT ![i] =
                  [todo |-> Tail(run.todo),
                   contacted |-> ContactedAfterDispatch(pending, p, success),
                   sent |-> IF success
                            THEN run.sent @@ (c :> [index |-> tbl[c].contact_attempts,
                                                   kind |-> INITIAL_EMAIL])
                            ELSE run.sent,
                   failed |-> IF success THEN run.failed ELSE run.failed \cup {c}]]
    /\ UNCHANGED <<now, followRuns, schedulerVars, scrapeRuns, classified,
                   collectionVars>>

\* the db.commit() after the loop
InitiateCommit(i) ==
    /\ i \in 1..Len(initRuns)
    /\ initRuns[i].todo = <<>>
    /\ properties' = MarkContacted(properties, initRuns[i].contacted)
    /\ listings' = Touch(listings, initRuns[i].contacted)
    /\ initRuns' = RemoveAt(initRuns, i)
    /\ UNCHANGED <<now, contacts, followRuns, schedulerVars, scrapeRuns, classified,
                   collectionVars, communications>>

(***************************************************************************)
(* RentalScheduler.send_follow_ups                                         *)
(***************************************************************************)
\* the scheduler starts the job: follow_up_time and the query
FollowUpStart ==
    /\ Len(followRuns) < max_instances(SEND_FOLLOW_UPS)
    /\ LET follow_up_time == now - FOLLOW_UP_DELAY_HOURS
           contacts_to_follow_up ==
               {c \in DOMAIN contacts : NeedsFollowUp(contacts[c], follow_up_time)}
       IN  followRuns' = Append(followRuns,
                  [todo |-> InIdOrder(contacts_to_follow_up),
                   session |-> [c \in contacts_to_follow_up |-> contacts[c]],
                   dirty |-> {}, sent |-> <<>>, failed |-> {}])
    /\ UNCHANGED <<now, properties, contacts, initRuns>>
    /\ UNCHANGED <<schedulerVars, listingVars, collectionVars, communications>>

\* RowAfterDispatch without the test of the result
RowAfterDispatch_Always(contact, success) == RecordAttempt(contact)

\* "if success:" the session's row after a dispatch
RowAfterDispatch(contact, success) ==
    IF success THEN RecordAttempt(contact) ELSE contact

\* one turn of the loop over contacts_to_follow_up
FollowUpStep(i, transport) ==
    /\ i \in 1..Len(followRuns)
    /\ followRuns[i].todo # <<>>
    /\ LET run == followRuns[i]
           c == Head(run.todo)
           contact == run.session[c]
           success == FollowUpDispatch(contact, transport)
           after == RowAfterDispatch(contact, success)
       IN  followRuns' = [followRuns EXCEPT ![i] =
                  [todo |-> Tail(run.todo),
                   session |-> [run.session EXCEPT ![c] = after],
                   dirty |-> IF after # contact THEN run.dirty \cup {c} ELSE run.dirty,
                   sent |-> IF success
                            THEN run.sent @@ (c :> [index |-> contact.contact_attempts,
                                                   kind |-> NextContactMethod(contact)])
                            ELSE run.sent,
                   failed |-> IF success THEN run.failed ELSE run.failed \cup {c}]]
    /\ UNCHANGED <<now, properties, contacts, initRuns>>
    /\ UNCHANGED <<schedulerVars, listingVars, collectionVars>>

\* the UPDATE a commit of send_follow_ups issues for the rows its session changed:
\* the changed columns only
WriteAttempts(tbl, session, dirty) ==
    [c \in DOMAIN tbl |->
        IF c \in dirty
        THEN [tbl[c] EXCEPT !.contact_attempts = session[c].contact_attempts,
                            !.last_contact_attempt = session[c].last_contact_attempt,
                            !.next_contact_scheduled = session[c].next_contact_scheduled]
        ELSE tbl[c]]

\* the db.commit() after the loop
FollowUpCommit(i) ==
    /\ i \in 1..Len(followRuns)
    /\ followRuns[i].todo = <<>>
    /\ contacts' = WriteAttempts(contacts, followRuns[i].session, followRuns[i].dirty)
    /\ followRuns' = RemoveAt(followRuns, i)
    /\ UNCHANGED <<now, properties, initRuns>>
    /\ UNCHANGED <<schedulerVars, listingVars, collectionVars, communications>>

(***************************************************************************)
(* web/app.py, api_update_property_status                                  *)
(***************************************************************************)
ApiUpdatePropertyStatus(property_id, new_status) ==
    /\ property_id \in DOMAIN properties
    /\ properties' = [properties EXCEPT ![property_id].status = new_status]
    \* property_obj.last_updated = datetime.utcnow()
    /\ listings' = Touch(listings, {property_id})
    /\ UNCHANGED <<now, contacts, initRuns, followRuns>>
    /\ UNCHANGED <<schedulerVars, scrapeRuns, classified, collectionVars,
                   communications>>

(***************************************************************************)
(* Writers of the Contact table outside the scheduler.                     *)
(***************************************************************************)
\* the inbound response signal: responded and its status are recorded
RecordResponse(c) ==
    /\ c \in DOMAIN contacts
    /\ ~contacts[c].responded
    /\ contacts' = [contacts EXCEPT ![c].responded = TRUE, ![c].status = CS_RESPONDED]
    /\ UNCHANGED <<now, properties, initRuns, followRuns>>
    /\ UNCHANGED <<schedulerVars, listingVars, collectionVars, communications>>

\* the contact details of a Contact created with empty name, email and phone
\* are filled in
ContactDetailsFound(c) ==
    /\ c \in DOMAIN contacts
    /\ ~contacts[c].email
    /\ contacts' = [contacts EXCEPT ![c].email = TRUE, ![c].phone = TRUE]
    /\ UNCHANGED <<now, properties, initRuns, followRuns>>
    /\ UNCHANGED <<schedulerVars, listingVars, collectionVars, communications>>

Next ==
    \/ \E d \in AdvanceSteps : Tick(d)
    \/ InitiateStart
    \/ \E i \in 1..Len(initRuns), transport \in BOOLEAN :
          InitiateStep(i, transport) /\ UNCHANGED communications
    \/ \E i \in 1..Len(initRuns) : InitiateCommit(i)
    \/ FollowUpStart
    \/ \E i \in 1..Len(followRuns), transport \in BOOLEAN :
          FollowUpStep(i, transport) /\ UNCHANGED communications
    \/ \E i \in 1..Len(followRuns) : FollowUpCommit(i)
    \/ \E p \in PropertyIds, s \in ApiStatusInputs : ApiUpdatePropertyStatus(p, s)
    \/ \E c \in DOMAIN contacts : RecordResponse(c)
    \/ \E c \in DOMAIN contacts : ContactDetailsFound(c)

Spec == Init /\ [][Next]_vars

(***************************************************************************)
(* SpecFair: Spec with the scheduler starting and finishing its passes     *)
(* again and again, the clock advancing up to MaxNow, contact details      *)
(* being found, and every dispatch that is tried over and over succeeding. *)
(***************************************************************************)
Fairness ==
    /\ WF_vars(\E d \in AdvanceSteps : Tick(d))
    /\ WF_vars(InitiateStart)
    /\ SF_vars(\E i \in 1..Len(initRuns) :
                  InitiateStep(i, TRUE) /\ UNCHANGED communications)
    /\ WF_vars(\E i \in 1..Len(initRuns) : InitiateCommit(i))
    /\ WF_vars(FollowUpStart)
    /\ SF_vars(\E i \in 1..Len(followRuns) :
                  FollowUpStep(i, TRUE) /\ UNCHANGED communications)
    /\ WF_vars(\E i \in 1..Len(followRuns) : FollowUpCommit(i))
    /\ WF_vars(\E c \in DOMAIN contacts : ContactDetailsFound(c))

SpecFair == Spec /\ Fairness

(***************************************************************************)
(* SpecInteractions: the passes of Spec with the Communication rows the    *)
(* dispatch functions log (EmailSender._log_communication,                 *)
(* PhoneCaller._log_communication) and the call status handler             *)
(* PhoneCaller.handle_call_status_update.  A Property may have been        *)
(* flagged unavailable before the passes run.                              *)
(***************************************************************************)
\* the Communication rows the model lets the dispatch functions log
MaxCommunications == 4

\* ContactMethod, src/database/models.py
CM_EMAIL == "email"
CM_PHONE == "phone"

COMM_SENT == "sent"
COMM_INITIATED == "initiated"

\* a row without metadata has no call SID
NoSid == 0

\* EmailSender._log_communication: the row it adds
EmailCommunication(property_id, contact_id, subject) ==
    [property_id |-> property_id, contact_id |-> contact_id, method |-> CM_EMAIL,
     subject |-> subject, status |-> COMM_SENT, sent_at |-> now,
     delivered_at |-> NULL, call_sid |-> NoSid, duration |-> ""]

\* PhoneCaller._log_communication: the row it adds, metadata {'call_sid': ...}
PhoneCommunication(property_id, contact_id, subject, call_sid) ==
    [property_id |-> property_id, contact_id |-> contact_id, method |-> CM_PHONE,
     subject |-> subject, status |-> COMM_INITIATED, sent_at |-> now,
     delivered_at |-> NULL, call_sid |-> call_sid, duration |-> ""]

\* call.sid of the call client.calls.create places: a new one for every call
NextCallSid(tbl) == Len(tbl) + 1

\* the row a dispatch function logs after a dispatch of a kind
LoggedCommunication(tbl, property_id, contact_id, kind) ==
    IF kind = FOLLOW_UP_CALL
    THEN PhoneCommunication(property_id, contact_id, kind, NextCallSid(tbl))
    ELSE EmailCommunication(property_id, contact_id, kind)

\* the Communication table after a dispatch: the row is logged when the
\* dispatch succeeded
AfterDispatch(tbl, property_id, contact_id, kind, success) ==
    IF success
    THEN Append(tbl, LoggedCommunication(tbl, property_id, contact_id, kind))
    ELSE tbl

\* one turn of the loop of initiate_contacts, with the row
\* send_initial_contact_email logs
InitiateStepLogged(i, transport) ==
    /\ InitiateStep(i, transport)
    /\ LET p == Head(initRuns[i].todo)
           success == send_initial_contact_email(contacts', p, transport)
       IN  /\ success => Len(communications) < MaxCommunications
           /\ communications' = AfterDispatch(communications, p,
                                              FirstContact(contacts', p),
                                              INITIAL_EMAIL, success)

\* one turn of the loop of send_follow_ups, with the row the dispatch
\* function logs
FollowUpStepLogged(i, transport) ==
    /\ FollowUpStep(i, transport)
    /\ LET c == Head(followRuns[i].todo)
           contact == followRuns[i].session[c]
           success == FollowUpDispatch(contact, transport)
       IN  /\ success => Len(communications) < MaxCommunications
           /\ communications' = AfterDispatch(communications, contact.property_id, c,
                                              NextContactMethod(contact), success)

\* status values and durations Twilio posts for a call
CallStatuses == {"completed", "no-answer"}
Durations == {"", "42"}

\* CallStatusUpdated that also stamps sent_at
CallStatusUpdated_Resent(communication, status, duration) ==
    [communication EXCEPT !.status = status, !.sent_at = now]

\* handle_call_status_update, the changes to the row found
CallStatusUpdated(communication, status, duration) ==
    IF status = "completed" /\ duration # ""
    THEN [communication EXCEPT !.status = status, !.duration = duration,
                               !.delivered_at = now]
    ELSE [communication EXCEPT !.status = status]

\* PhoneCaller.handle_call_status_update: the first row whose metadata holds
\* the call SID is updated; without such a row nothing is written
handle_call_status_update(call_sid, status, duration) ==
    /\ LET found == {k \in 1..Len(communications) :
                        communications[k].call_sid = call_sid}
       IN  communications' =
              IF found = {} THEN communications
              ELSE [communications EXCEPT
                       ![Min(found)] = CallStatusUpdated(@, status, duration)]
    /\ UNCHANGED <<now, properties, contacts, initRuns, followRuns, schedulerVars,
                   listingVars, collectionVars>>

\* Init, with Property rows the retention pass has flagged
InitInteractions ==
    /\ now = StartHour
    /\ \E S \in SUBSET PropertyIds : \E avail \in [PropertyIds -> BOOLEAN] :
         /\ \E tbl \in [S -> UNION {StoredContactRows(p) : p \in PropertyIds}] :
              /\ \A c \in S : tbl[c].property_id = c
              /\ contacts = tbl
         /\ properties = [p \in PropertyIds |->
                            Property(IF p \in S /\ contacts[p].status # PENDING
                                     THEN CONTACTED ELSE PS_NEW, avail[p])]
    /\ initRuns = <<>>
    /\ followRuns = <<>>
    /\ SchedulerIdle
    /\ NoListings
    /\ NoLogs

NextInteractions ==
    \/ \E d \in AdvanceSteps : Tick(d)
    \/ InitiateStart
    \/ \E i \in 1..Len(initRuns), transport \in BOOLEAN : InitiateStepLogged(i, transport)
    \/ \E i \in 1..Len(initRuns) : InitiateCommit(i)
    \/ FollowUpStart
    \/ \E i \in 1..Len(followRuns), transport \in BOOLEAN : FollowUpStepLogged(i, transport)
    \/ \E i \in 1..Len(followRuns) : FollowUpCommit(i)
    \/ \E p \in PropertyIds, s \in ApiStatusInputs : ApiUpdatePropertyStatus(p, s)
    \/ \E c \in DOMAIN contacts : RecordResponse(c)
    \/ \E c \in DOMAIN contacts : ContactDetailsFound(c)
    \/ \E call_sid \in 1..MaxCommunications, status \in CallStatuses,
          duration \in Durations : handle_call_status_update(call_sid, status, duration)

SpecInteractions == InitInteractions /\ [][NextInteractions]_vars

(***************************************************************************)
(* SpecScheduler: the four jobs of RentalScheduler._schedule_jobs and the  *)
(* triggers the BackgroundScheduler processes for them.  Lateness and      *)
(* grace periods are counted in seconds.  A job is represented by the      *)
(* number of its instances that are running.                               *)
(***************************************************************************)
\* a job added without misfire_grace_time
UNDEFINED == NULL

\* misfire_grace_time with the grace of the scraping job cut to that of the others
misfire_grace_time_AllShort(job) ==
    IF job = DAILY_CLEANUP THEN UNDEFINED ELSE 300

\* add_job(..., misfire_grace_time=...), in seconds
misfire_grace_time(job) ==
    CASE job = SCRAPE_PROPERTIES -> 600
      [] job = INITIATE_CONTACTS -> 300
      [] job = SEND_FOLLOW_UPS   -> 300
      [] job = DAILY_CLEANUP     -> UNDEFINED

\* BackgroundScheduler(timezone=...) sets no job_defaults: a job without a grace
\* period of its own gets the scheduler's, one second
DefaultMisfireGrace == 1

EffectiveGrace(job) ==
    IF misfire_grace_time(job) = UNDEFINED THEN DefaultMisfireGrace
    ELSE misfire_grace_time(job)

\* seconds between a fire time and the moment the scheduler processes it
Lateness == {0, 1, 2, 300, 301, 600, 601}

RUN == "run"
SKIPPED_MAX_INSTANCES == "skipped_max_instances"
MISSED == "missed"

\* what the scheduler does with a fire time it processes `late` seconds after it,
\* `instances` instances of the job running: the instance limit is tested when the
\* run is submitted, the grace period when the submitted run begins
TriggerOutcome(job, late, instances) ==
    IF instances >= max_instances(job) THEN SKIPPED_MAX_INSTANCES
    ELSE IF late > EffectiveGrace(job) THEN MISSED
    ELSE RUN

\* the scheduler processes one fire time of a job
ProcessTrigger(job, late) ==
    LET outcome == TriggerOutcome(job, late, running[job])
    IN  /\ lastTrigger' = [job |-> job, late |-> late, outcome |-> outcome]
        /\ running' = IF outcome = RUN THEN [running EXCEPT ![job] = @ + 1]
                      ELSE running
        /\ UNCHANGED <<now, properties, contacts, initRuns, followRuns, listingVars,
                       collectionVars, communications>>

\* a running instance of a job returns
JobFinished(job) ==
    /\ running[job] > 0
    /\ running' = [running EXCEPT ![job] = @ - 1]
    /\ UNCHANGED lastTrigger
    /\ UNCHANGED <<now, properties, contacts, initRuns, followRuns, listingVars,
                   collectionVars, communications>>

InitScheduler ==
    /\ now = 0
    /\ properties = <<>>
    /\ contacts = <<>>
    /\ initRuns = <<>>
    /\ followRuns = <<>>
    /\ SchedulerIdle
    /\ NoListings
    /\ NoLogs

NextScheduler ==
    \/ \E job \in JobIds, late \in Lateness : ProcessTrigger(job, late)
    \/ \E job \in JobIds : JobFinished(job)

SpecScheduler == InitScheduler /\ [][NextScheduler]_vars

(***************************************************************************)
(* SpecClassify: DuplicateDetector.is_duplicate applied to raw listings    *)
(* against a store of Property rows.  A text the code parses character by  *)
(* character (price, area) is a sequence of one-character strings; a       *)
(* parsed number is kept in hundredths.  Similarities are percentages.     *)
(***************************************************************************)
\* number of classifications a behaviour makes
MaxClassified == 2

ADDRESS_SIMILARITY_THRESHOLD == 85
DESCRIPTION_SIMILARITY_THRESHOLD == 75
PRICE_DIFFERENCE_THRESHOLD == 50

\* Python's None where a text is expected
None == "<None>"

Digits == {"0", "1", "2", "3", "4", "5", "6", "7", "8", "9"}

DigitValue(ch) ==
    CASE ch = "0" -> 0 [] ch = "1" -> 1 [] ch = "2" -> 2 [] ch = "3" -> 3
      [] ch = "4" -> 4 [] ch = "5" -> 5 [] ch = "6" -> 6 [] ch = "7" -> 7
      [] ch = "8" -> 8 [] ch = "9" -> 9

RECURSIVE DigitsValue(_)
DigitsValue(ds) ==
    IF ds = <<>> THEN 0
    ELSE DigitsValue(SubSeq(ds, 1, Len(ds) - 1)) * 10 + DigitValue(ds[Len(ds)])

\* float(text) of a text of digits and dots, in hundredths (digits after the
\* second decimal are dropped); NULL where float raises ValueError
float(text) ==
    LET dots == {i \in 1..Len(text) : text[i] = "."}
    IN  IF Cardinality(dots) > 1 \/ Cardinality(dots) = Len(text) THEN NULL
        ELSE IF dots = {} THEN DigitsValue(text) * 100
        ELSE LET d == CHOOSE i \in dots : TRUE
                 frac == SubSeq(text, d + 1, Len(text)) \o <<"0", "0">>
             IN  DigitsValue(SubSeq(text, 1, d - 1)) * 100
                   + DigitsValue(SubSeq(frac, 1, 2))

\* ''.join(filter(lambda x: x.isdigit() or x == '.', text))
RECURSIVE DigitsAndDots(_)
DigitsAndDots(text) ==
    IF text = <<>> THEN <<>>
    ELSE IF Head(text) \in Digits \cup {"."}
         THEN <<Head(text)>> \o DigitsAndDots(Tail(text))
         ELSE DigitsAndDots(Tail(text))

\* text.replace(old, new) for a one-character old
ReplaceChar(text, old, new) ==
    [i \in 1..Len(text) |-> IF text[i] = old THEN new ELSE text[i]]

\* text.replace(a + b, '') for a two-character pattern
RECURSIVE RemovePair(_, _, _)
RemovePair(text, a, b) ==
    IF Len(text) < 2 THEN text
    ELSE IF text[1] = a /\ text[2] = b
         THEN RemovePair(SubSeq(text, 3, Len(text)), a, b)
         ELSE <<text[1]>> \o RemovePair(Tail(text), a, b)

\* DuplicateDetector.parse_price: the removals of currency words only take out
\* characters the filter drops as well, the comma becomes a dot
parse_price(price_text) ==
    IF price_text = <<>> THEN NULL
    ELSE LET price_clean == DigitsAndDots(ReplaceChar(price_text, ",", "."))
         IN  IF price_clean = <<>> THEN NULL ELSE float(price_clean)

\* DuplicateDetector.parse_area
parse_area(area_text) ==
    IF area_text = <<>> THEN NULL
    ELSE LET area_clean ==
                 DigitsAndDots(RemovePair(RemovePair(area_text, "m", "²"), "m", "2"))
         IN  IF area_clean = <<>> THEN NULL ELSE float(area_clean)

\* DuplicateDetector.parse_rooms on the room texts of the model: the first key
\* of room_mappings the text contains
parse_rooms(rooms_text) ==
    CASE rooms_text = ""         -> NULL
      [] rooms_text = "T2"       -> 2
      [] rooms_text = "3 pièces" -> 3

\* text.strip().lower() on the city texts of the model
strip_lower(text) ==
    CASE text = ""        -> ""
      [] text = "Paris"   -> "paris"
      [] text = " paris " -> "paris"
      [] text = "Lyon"    -> "lyon"
      [] text = "Sainte-Foy-lès-Lyon" -> "sainte-foy-lès-lyon"

\* Property.city.ilike('%city%'): the column contains the city somewhere,
\* letter case apart; on the cities of the model, every column contains the
\* city of no characters and itself, and "sainte-foy-lès-lyon" contains "lyon"
ilike(column, city) ==
    \/ city = ""
    \/ strip_lower(column) = city
    \/ strip_lower(column) = "sainte-foy-lès-lyon" /\ city = "lyon"

\* DuplicateDetector._normalize_address on the addresses of the model
_normalize_address(address) ==
    CASE address = ""                              -> ""
      [] address = "12 rue des Lilas, 75011 Paris" -> "12 r des lilas"
      [] address = "12 Rue des Lilas"              -> "12 r des lilas"
      [] address = "12 rue Pasteur"                -> "12 r pasteur"
      [] address = "3 rue Pasteur, Lyon"           -> "3 r pasteur"
      [] address = "8 bd Voltaire"                 -> "8 bd voltaire"

\* addr_norm.split()
split(addr_norm) ==
    CASE addr_norm = ""               -> {}
      [] addr_norm = "12 r des lilas" -> {"12", "r", "des", "lilas"}
      [] addr_norm = "12 r pasteur"   -> {"12", "r", "pasteur"}
      [] addr_norm = "3 r pasteur"    -> {"3", "r", "pasteur"}
      [] addr_norm = "8 bd voltaire"  -> {"8", "bd", "voltaire"}

\* re.findall(r'\d+', addr_norm): the numbers stand as words of their own
findall_digits(addr_norm) == split(addr_norm) \cap {"3", "8", "12"}

\* fuzz.ratio of two normalised addresses
fuzz_ratio(s1, s2) ==
    CASE s1 = s2                                          -> 100
      [] {s1, s2} = {"12 r des lilas", "12 r pasteur"}    -> 54
      [] s1 = "3 r pasteur"   /\ s2 = "12 r des lilas"    -> 40
      [] s1 = "3 r pasteur"   /\ s2 = "12 r pasteur"      -> 87
      [] s1 = "8 bd voltaire" /\ s2 = "12 r des lilas"    -> 37
      [] s1 = "8 bd voltaire" /\ s2 = "12 r pasteur"      -> 32

\* DuplicateDetector._calculate_address_similarity
_calculate_address_similarity(address1, address2) ==
    IF address1 = "" \/ address2 = "" THEN 0
    ELSE LET addr1_norm == _normalize_address(address1)
             addr2_norm == _normalize_address(address2)
             nums1 == findall_digits(addr1_norm)
             nums2 == findall_digits(addr2_norm)
             common_words == split(addr1_norm) \cap split(addr2_norm)
             number_bonus == IF nums1 \cap nums2 # {} THEN 10 ELSE 0
             word_bonus == Min({30, Cardinality(common_words) * 10})
         IN  Min({100, fuzz_ratio(addr1_norm, addr2_norm) + number_bonus + word_bonus})

\* DuplicateDetector._normalize_description on the descriptions of the model
_normalize_description(description) ==
    CASE description = "" -> ""
      [] description = "Bel appartement lumineux, 2 pièces, parquet"
           -> "bel lumineux 2 pièces parquet"
      [] description = "Appartement lumineux 2 pièces parquet, libre"
           -> "lumineux 2 pièces parquet"
      [] description = "Studio meublé proche métro"
           -> "studio meublé proche métro"

\* fuzz.token_sort_ratio of two normalised descriptions
token_sort_ratio(s1, s2) ==
    CASE s1 = s2 -> 100
      [] s1 = "lumineux 2 pièces parquet" /\ s2 = "bel lumineux 2 pièces parquet" -> 93
      [] s1 = "lumineux 2 pièces parquet" /\ s2 = "studio meublé proche métro" -> 31
      [] s1 = "studio meublé proche métro" /\ s2 = "bel lumineux 2 pièces parquet" -> 33

\* DuplicateDetector._calculate_description_similarity
_calculate_description_similarity(desc1, desc2) ==
    IF desc1 = "" \/ desc2 = "" THEN 0
    ELSE token_sort_ratio(_normalize_description(desc1), _normalize_description(desc2))

\* a or b, for texts
Or(a, b) == IF a # "" THEN a ELSE b

\* _exact_specs_match, a listing whose area is not known never agreeing
_exact_specs_match_AreaRequired(new_data, existing) ==
    LET new_price == parse_price(new_data.price)
        new_rooms == parse_rooms(new_data.rooms)
        new_area == parse_area(new_data.area)
        Present(x) == x # NULL /\ x # 0
        Abs(x) == IF x < 0 THEN 0 - x ELSE x
    IN  /\ (Present(new_price) /\ Present(existing.price))
              => Abs(new_price - existing.price) <= PRICE_DIFFERENCE_THRESHOLD * 100
        /\ (Present(new_rooms) /\ Present(existing.rooms))
              => new_rooms = existing.rooms
        /\ Present(new_area) /\ Present(existing.area)
        /\ Abs(new_area - existing.area) * 10 <= existing.area

\* DuplicateDetector._exact_specs_match: a value that is None or zero on either
\* side is not compared
_exact_specs_match(new_data, existing) ==
    LET new_price == parse_price(new_data.price)
        new_rooms == parse_rooms(new_data.rooms)
        new_area == parse_area(new_data.area)
        Present(x) == x # NULL /\ x # 0
        Abs(x) == IF x < 0 THEN 0 - x ELSE x
    IN  /\ (Present(new_price) /\ Present(existing.price))
              => Abs(new_price - existing.price) <= PRICE_DIFFERENCE_THRESHOLD * 100
        /\ (Present(new_rooms) /\ Present(existing.rooms))
              => new_rooms = existing.rooms
        /\ (Present(new_area) /\ Present(existing.area))
              => Abs(new_area - existing.area) * 10 <= existing.area

\* _is_same_property, an address above the threshold counting only together
\* with a description above its threshold
_is_same_property_WithDescription(new_data, existing) ==
    /\ _calculate_address_similarity(new_data.address, existing.address)
          > ADDRESS_SIMILARITY_THRESHOLD
    /\ _calculate_description_similarity(
          Or(new_data.description, new_data.title),
          Or(existing.description, existing.title))
          > DESCRIPTION_SIMILARITY_THRESHOLD

\* _is_same_property, the description compared whatever the address similarity
_is_same_property_Ungated(new_data, existing) ==
    \/ _calculate_address_similarity(new_data.address, existing.address)
          > ADDRESS_SIMILARITY_THRESHOLD
    \/ _calculate_description_similarity(
          Or(new_data.description, new_data.title),
          Or(existing.description, existing.title))
          > DESCRIPTION_SIMILARITY_THRESHOLD
    \/ /\ _calculate_address_similarity(new_data.address, existing.address) > 40
       /\ _exact_specs_match(new_data, existing)

\* DuplicateDetector._is_same_property
_is_same_property(new_data, existing) ==
    LET address_similarity ==
            _calculate_address_similarity(new_data.address, existing.address)
        description_similarity ==
            _calculate_description_similarity(
                Or(new_data.description, new_data.title),
                Or(existing.description, existing.title))
    IN  \/ address_similarity > ADDRESS_SIMILARITY_THRESHOLD
        \/ /\ address_similarity > 60
           /\ description_similarity > DESCRIPTION_SIMILARITY_THRESHOLD
        \/ /\ address_similarity > 40
           /\ _exact_specs_match(new_data, existing)

\* the test of line 34, with a city of no characters let through
MissingPriceOrCity_PriceOnly(price, city) == price = NULL \/ price = 0

\* not price or not city
MissingPriceOrCity(price, city) == price = NULL \/ price = 0 \/ city = ""

\* the rows the query of is_duplicate returns
existing_properties(props, tbl, price, city) ==
    {p \in DOMAIN tbl :
        /\ ilike(tbl[p].city, city)
        /\ tbl[p].price >= price - PRICE_DIFFERENCE_THRESHOLD * 100
        /\ tbl[p].price <= price + PRICE_DIFFERENCE_THRESHOLD * 100
        /\ props[p].still_available}

\* the result of is_duplicate and the rows it compared the listing with
Verdict(verdict, compared) == [verdict |-> verdict, compared |-> compared]

\* DuplicateDetector.is_duplicate; db_ok is false when get_db or the query
\* raises, and every exception is answered with False
is_duplicate(property_data, props, tbl, db_ok) ==
    IF ~db_ok \/ property_data.city = None THEN Verdict(FALSE, {})
    ELSE LET price == parse_price(property_data.price)
             city == strip_lower(property_data.city)
         IN  IF MissingPriceOrCity(price, city) THEN Verdict(FALSE, {})
             ELSE LET existing == existing_properties(props, tbl, price, city)
                      same == {p \in existing : _is_same_property(property_data, tbl[p])}
                  IN  IF same = {} THEN Verdict(FALSE, existing)
                      ELSE Verdict(TRUE, {p \in existing : p <= Min(same)})

\* the listing rows after is_duplicate returns: the session is closed and
\* nothing is written; refreshing the compared rows is what it does not do
StoreAfterClassify_Refresh(tbl, compared) == Touch(tbl, compared)

StoreAfterClassify(tbl, compared) == tbl

\* the texts of the raw listings the model classifies
PriceTexts ==
    {<<>>, <<"0", " ", "€">>, <<"9", "0", "0", " ", "€">>,
     <<"9", "5", "0", "€">>, <<"1", ".", "2", ".", "3">>,
     <<"9", "0", "0", ",", "5", "0", " ", "€">>}
CityTexts == {"", "Paris", " paris ", "Lyon", None}
AddressTexts == {"", "12 Rue des Lilas", "12 rue Pasteur", "3 rue Pasteur, Lyon",
                 "8 bd Voltaire"}
DescriptionTexts == {"", "Appartement lumineux 2 pièces parquet, libre"}
RoomTexts == {"T2", "3 pièces"}
AreaTexts == {<<>>, <<"0", "m", "2">>, <<"5", "0", "m", "2">>}
\* the page the listing was read from: the source_url of the first stored row,
\* which the store holds or not
UrlTexts == {"seloger/1"}

\* property_data, the dictionary a scraper hands to the detector; a key that
\* is absent reads as the empty text
RawListings ==
    [price : PriceTexts, city : CityTexts, address : AddressTexts,
     description : DescriptionTexts, title : {"Studio meublé proche métro"},
     rooms : RoomTexts, area : AreaTexts, url : UrlTexts]

\* the listing columns of the two Property rows a store of the model holds
StoredListing(p) ==
    IF p = 1
    THEN [source_url |-> "seloger/1", city |-> "Paris", price |-> 90000,
          address |-> "12 rue des Lilas, 75011 Paris",
          description |-> "Bel appartement lumineux, 2 pièces, parquet",
          title |-> "Appartement 2 pièces", rooms |-> 2, area |-> 4500,
          last_updated |-> 0]
    ELSE [source_url |-> "pap/2", city |-> "Paris", price |-> 94000,
          address |-> "12 rue Pasteur", description |-> "",
          title |-> "Studio meublé proche métro", rooms |-> 3, area |-> 5000,
          last_updated |-> 0]

\* the cities the second row was collected for
StoredCities == {"Paris", "Sainte-Foy-lès-Lyon"}

\* one classification: the detector answers and the store is left as the
\* detector leaves it
Record(property_data, db_ok) ==
    LET answer == is_duplicate(property_data, properties, listings, db_ok)
    IN  /\ classified' = Append(classified,
              [property_data |-> property_data, db_ok |-> db_ok,
               verdict |-> answer.verdict, compared |-> answer.compared])
        /\ listings' = StoreAfterClassify(listings, answer.compared)
        /\ UNCHANGED <<now, properties, contacts, initRuns, followRuns,
                       schedulerVars, scrapeRuns, collectionVars, communications>>

\* a raw listing is classified
Classify(property_data, db_ok) ==
    /\ classified = <<>>
    /\ Record(property_data, db_ok)

\* the raw listing classified last is classified again
ClassifyAgain(db_ok) ==
    /\ classified # <<>>
    /\ Len(classified) < MaxClassified
    /\ Record(classified[Len(classified)].property_data, db_ok)

InitClassify ==
    /\ now = StartHour
    /\ \E S \in SUBSET {1, 2} : \E avail \in [S -> BOOLEAN] :
         /\ S # {}
         /\ properties = [p \in S |-> Property(PS_NEW, avail[p])]
         /\ \E city \in StoredCities :
               listings = [p \in S |-> IF p = 2
                                       THEN [StoredListing(p) EXCEPT !.city = city]
                                       ELSE StoredListing(p)]
    /\ contacts = <<>>
    /\ initRuns = <<>>
    /\ followRuns = <<>>
    /\ SchedulerIdle
    /\ scrapeRuns = <<>>
    /\ classified = <<>>
    /\ NoLogs

NextClassify ==
    \/ \E property_data \in RawListings, db_ok \in BOOLEAN :
          Classify(property_data, db_ok)
    \/ \E db_ok \in BOOLEAN : ClassifyAgain(db_ok)

SpecClassify == InitClassify /\ [][NextClassify]_vars

(***************************************************************************)
(* SpecListings: the collection pass RentalScheduler.scrape_all_sites with *)
(* BaseScraper.scrape_city, the retention pass daily_cleanup and the       *)
(* status endpoint, over the listing columns of the Property rows.  A      *)
(* collection run is one city of one site: it lives from scrape_city to    *)
(* the commit of its session.  classified keeps, per source URL, the       *)
(* latest classification a collection pass made of a listing with that     *)
(* URL; the ScrapingLog rows are not kept.                                 *)
(***************************************************************************)
\* listings a collection run finds for a city
MaxBatch == 2
\* last hour the clock of SpecListings reaches
MaxListingHour == 336

\* timedelta(days=7), in hours
STALENESS_HOURS == 168

\* hours between two moments SpecListings looks at the store: half a
\* staleness window
ListingStep == STALENESS_HOURS \div 2

Urls == {"seloger/1", "seloger/2"}

\* what parse_single_listing collects for a listing: its URL and the text of
\* its price element, empty when the element is missing
ScrapedListings == [url : Urls, price : {<<>>, <<"9", "0", "0", " ", "€">>}]

\* the dictionary handed to create_property_from_data: no scraper sets 'city'
PropertyData(scraped) ==
    [url |-> scraped.url, price |-> scraped.price, city |-> "",
     address |-> "", description |-> "", title |-> "", rooms |-> "", area |-> <<>>]

\* create_property_from_data returns None for a listing the detector calls a
\* duplicate
SkippedAsDuplicate(data) == is_duplicate(data, properties, listings, TRUE).verdict

\* BaseScraper.create_property_from_data for a listing that is kept: the
\* Property object, of which the model follows source_url and price
create_property_from_data(data) ==
    [source_url |-> data.url, price |-> parse_price(data.price)]

\* BaseScraper.scrape_city: the objects of the listings found, in the order
\* found, duplicates left out
scrape_city(found) ==
    LET kept == SelectSeq([k \in 1..Len(found) |-> PropertyData(found[k])],
                          LAMBDA data : ~SkippedAsDuplicate(data))
    IN  [k \in 1..Len(kept) |-> create_property_from_data(kept[k])]

\* the classifications scrape_city made, the latest per URL
Classified(found, log) ==
    [url \in DOMAIN log \cup {found[k].url : k \in 1..Len(found)} |->
        IF \E k \in 1..Len(found) : found[k].url = url
        THEN [verdict |-> SkippedAsDuplicate(
                  PropertyData(found[Max({k \in 1..Len(found) : found[k].url = url})])),
              at |-> now]
        ELSE log[url]]

\* the row a query by source_url returns first, NULL when there is none
FirstBySourceUrl(tbl, url) ==
    IF \E p \in DOMAIN tbl : tbl[p].source_url = url
    THEN Min({p \in DOMAIN tbl : tbl[p].source_url = url})
    ELSE NULL

\* the scheduler starts the job for a city: scrape_city returns the objects
ScrapeStart(found) ==
    /\ Len(scrapeRuns) < max_instances(SCRAPE_PROPERTIES)
    /\ scrapeRuns' = Append(scrapeRuns,
          [todo |-> scrape_city(found), added |-> <<>>, refreshed |-> {},
           revived |-> {}])
    /\ classified' = Classified(found, classified)
    /\ UNCHANGED <<now, properties, contacts, initRuns, followRuns,
                   schedulerVars, listings, communications>>

\* one turn of the save loop: the object is added to the session when no row
\* has its source_url, else that row is refreshed in the session; the session
\* does not flush before a query, so an object added earlier is not found.
\* still_available = True changes the loaded row only when it was false, and
\* only a changed attribute is written at the commit
ScrapeSave(i) ==
    /\ i \in 1..Len(scrapeRuns)
    /\ scrapeRuns[i].todo # <<>>
    /\ LET run == scrapeRuns[i]
           prop == Head(run.todo)
           existing == FirstBySourceUrl(listings, prop.source_url)
       IN  scrapeRuns' = [scrapeRuns EXCEPT ![i] =
              IF existing = NULL
              THEN [run EXCEPT !.todo = Tail(@), !.added = Append(@, prop)]
              ELSE [run EXCEPT !.todo = Tail(@), !.refreshed = @ \cup {existing},
                               !.revived = IF properties[existing].still_available
                                           THEN @ ELSE @ \cup {existing}]]
    /\ UNCHANGED <<now, properties, contacts, initRuns, followRuns,
                   schedulerVars, listings, classified, collectionVars,
                   communications>>

\* db.commit() raises: an added object violates NOT NULL on price or UNIQUE on
\* source_url
CommitFails(tbl, added) ==
    \/ \E k \in 1..Len(added) : added[k].price = NULL
    \/ \E j, k \in 1..Len(added) : j # k /\ added[j].source_url = added[k].source_url
    \/ \E k \in 1..Len(added), p \in DOMAIN tbl : tbl[p].source_url = added[k].source_url

\* the rows of the objects a session added, with the column defaults
Inserted(added) ==
    [k \in 1..Len(added) |->
        [source_url |-> added[k].source_url, price |-> added[k].price,
         last_updated |-> now]]

\* db.commit() after the save loop: everything the session holds is written, or
\* nothing is when the flush fails
ScrapeCommit(i) ==
    /\ i \in 1..Len(scrapeRuns)
    /\ scrapeRuns[i].todo = <<>>
    /\ LET run == scrapeRuns[i]
           failed == CommitFails(listings, run.added)
       IN  /\ listings' = IF failed THEN listings
                          ELSE Touch(listings, run.refreshed) \o Inserted(run.added)
           /\ properties' = IF failed THEN properties
                            ELSE [p \in DOMAIN properties |->
                                    IF p \in run.revived
                                    THEN [properties[p] EXCEPT !.still_available = TRUE]
                                    ELSE properties[p]]
                                 \o [k \in 1..Len(run.added) |-> Property(PS_NEW, TRUE)]
    /\ scrapeRuns' = RemoveAt(scrapeRuns, i)
    /\ UNCHANGED <<now, contacts, initRuns, followRuns, schedulerVars, classified,
                   communications>>

\* old_properties without the threshold: every available row
old_properties_AnyAge(props, tbl) == {p \in DOMAIN tbl : props[p].still_available}

\* the rows daily_cleanup flags: last_updated before the threshold and available
old_properties(props, tbl) ==
    {p \in DOMAIN tbl :
        /\ tbl[p].last_updated < now - STALENESS_HOURS
        /\ props[p].still_available}

\* timedelta(days=30), in hours
LOG_RETENTION_HOURS == 720

\* the ScrapingLog rows daily_cleanup keeps: those started within the last 30 days
RecentLogs(logs) ==
    SelectSeq(logs, LAMBDA log : ~(log.started_at < now - LOG_RETENTION_HOURS))

\* RentalScheduler.daily_cleanup: one UPDATE, one DELETE and one commit; the
\* UPDATE sets last_updated of the rows it changes as well (onupdate)
daily_cleanup ==
    /\ properties' = [p \in DOMAIN properties |->
                        IF p \in old_properties(properties, listings)
                        THEN [properties[p] EXCEPT !.still_available = FALSE]
                        ELSE properties[p]]
    /\ listings' = Touch(listings, old_properties(properties, listings))
    /\ scraping_logs' = RecentLogs(scraping_logs)
    /\ UNCHANGED <<now, contacts, initRuns, followRuns, schedulerVars,
                   scrapeRuns, classified, scrapePass, communications>>

\* time passes between two runs of the jobs
ListingTick ==
    /\ scrapeRuns = <<>>
    /\ now + ListingStep <= MaxListingHour
    /\ now' = now + ListingStep
    /\ UNCHANGED <<properties, contacts, initRuns, followRuns, schedulerVars,
                   listingVars, collectionVars, communications>>

\* one Property row in the store, collected at hour 0
InitListings ==
    /\ now = 0
    /\ properties = <<Property(PS_NEW, TRUE)>>
    /\ listings = <<[source_url |-> "seloger/1", price |-> 90000, last_updated |-> 0]>>
    /\ classified = [url \in {"seloger/1"} |-> [verdict |-> FALSE, at |-> 0]]
    /\ scrapeRuns = <<>>
    /\ contacts = <<>>
    /\ initRuns = <<>>
    /\ followRuns = <<>>
    /\ SchedulerIdle
    /\ NoLogs

NextListings ==
    \/ ListingTick
    \/ \E n \in 1..MaxBatch : \E found \in [1..n -> ScrapedListings] :
          ScrapeStart(found) /\ UNCHANGED collectionVars
    \/ \E i \in 1..Len(scrapeRuns) : ScrapeSave(i)
    \/ \E i \in 1..Len(scrapeRuns) : ScrapeCommit(i) /\ UNCHANGED collectionVars
    \/ daily_cleanup
    \/ \E p \in DOMAIN properties : ApiUpdatePropertyStatus(p, CONTACTED)

SpecListings == InitListings /\ [][NextListings]_vars

(***************************************************************************)
(* SpecCollection: one call of scrape_all_sites after the other, with the  *)
(* ScrapingLog row of each unit (one city of one site).  A unit is the     *)
(* collection run of SpecListings between the commit that stores its       *)
(* ScrapingLog row and the end of its try statement.                       *)
(***************************************************************************)
\* the ScrapingLog rows the model lets the passes create
MaxLogs == 4

\* config.DEFAULT_SEARCH_CRITERIA.cities, two of the cities of the default
SearchCities == <<"Paris", "Lyon">>

\* self.scrapers, with ENABLED_SCRAPERS['seloger']
SELOGER == "seloger"

LOG_RUNNING == "running"
LOG_COMPLETED == "completed"
LOG_FAILED == "failed"

\* ScrapingLog(site=..., started_at=utcnow(), status='running', search_criteria=...)
ScrapingLog(site, city) ==
    [site |-> site, city |-> city, started_at |-> now, status |-> LOG_RUNNING,
     completed_at |-> NULL, properties_new |-> 0]

\* the scheduler calls scrape_all_sites
CollectionStart ==
    /\ ~scrapePass.running
    /\ Len(scraping_logs) + Len(SearchCities) <= MaxLogs
    /\ scrapePass' = [running |-> TRUE, cities |-> SearchCities, log |-> 0]
    /\ UNCHANGED <<now, properties, contacts, initRuns, followRuns, schedulerVars,
                   listingVars, scraping_logs, communications>>

\* a unit begins: the ScrapingLog row is added and committed, then scrape_city
\* returns the objects
UnitStart(found) ==
    /\ scrapePass.running
    /\ scrapePass.cities # <<>>
    /\ scrapePass.log = 0
    /\ scraping_logs' = Append(scraping_logs, ScrapingLog(SELOGER, Head(scrapePass.cities)))
    /\ scrapePass' = [scrapePass EXCEPT !.log = Len(scraping_logs) + 1]
    /\ ScrapeStart(found)

\* the ScrapingLog row after "Update scraping log" and its commit
LogCompleted(log, new_count) ==
    [log EXCEPT !.completed_at = now, !.status = LOG_COMPLETED,
                !.properties_new = new_count]

\* the except clause of the unit after a commit that raised in its flush: the
\* session refuses every further commit until it is rolled back, so
\* db.commit() raises again, nothing of status = 'failed' is written, and the
\* exception leaves scrape_all_sites
LogAfterFailedCommit(log) == log

\* a unit ends: the commit of the save loop, then the ScrapingLog row is
\* completed and the pass goes on to the next city, or the commit raises and
\* the pass is left through the except clause
UnitEnd ==
    /\ scrapePass.log # 0
    /\ scrapeRuns # <<>>
    /\ ScrapeCommit(1)
    /\ LET run == scrapeRuns[1]
           k == scrapePass.log
       IN  IF CommitFails(listings, run.added)
           THEN /\ scraping_logs' = [scraping_logs EXCEPT
                                        ![k] = LogAfterFailedCommit(@)]
                /\ scrapePass' = NoPass
           ELSE /\ scraping_logs' = [scraping_logs EXCEPT
                                        ![k] = LogCompleted(@, Len(run.added))]
                /\ scrapePass' = [scrapePass EXCEPT !.cities = Tail(@), !.log = 0]

\* scrape_all_sites returns after the last city
CollectionReturn ==
    /\ scrapePass.running
    /\ scrapePass.cities = <<>>
    /\ scrapePass' = NoPass
    /\ UNCHANGED <<now, properties, contacts, initRuns, followRuns, schedulerVars,
                   listingVars, scraping_logs, communications>>

NextCollection ==
    \/ ListingTick
    \/ CollectionStart
    \/ \E n \in 1..MaxBatch : \E found \in [1..n -> ScrapedListings] : UnitStart(found)
    \/ \E i \in 1..Len(scrapeRuns) : ScrapeSave(i)
    \/ UnitEnd
    \/ CollectionReturn

SpecCollection == InitListings /\ [][NextCollection]_vars

(***************************************************************************)
(* Steps of a pass, as the properties below recognise them.                *)
(***************************************************************************)
Range(seq) == {seq[k] : k \in 1..Len(seq)}

InitStarted == Len(initRuns') = Len(initRuns) + 1
InitStepped(i) ==
    /\ i \in 1..Len(initRuns)
    /\ Len(initRuns') = Len(initRuns)
    /\ initRuns'[i] # initRuns[i]
InitCommitted(i) ==
    /\ i \in 1..Len(initRuns)
    /\ initRuns[i].todo = <<>>
    /\ initRuns' = RemoveAt(initRuns, i)

FollowStarted == Len(followRuns') = Len(followRuns) + 1
FollowStepped(i) ==
    /\ i \in 1..Len(followRuns)
    /\ Len(followRuns') = Len(followRuns)
    /\ followRuns'[i] # followRuns[i]
FollowCommitted(i) ==
    /\ i \in 1..Len(followRuns)
    /\ followRuns[i].todo = <<>>
    /\ followRuns' = RemoveAt(followRuns, i)

\* the attempt index a follow-up run selected a Contact for
SelectedIndex(run, c) ==
    IF c \in DOMAIN run.sent THEN run.sent[c].index ELSE run.session[c].contact_attempts

\* ContactStatus values from which a Contact is still to be contacted
InProgress == {PENDING, EMAIL_SENT, PHONE_CALLED}

\* the run a pass start has just appended
StartedRun(runs) == runs[Len(runs)]

\* the contact method the escalation order gives an attempt index
ExpectedKinds(index) ==
    CASE index = 0 -> {INITIAL_EMAIL, FOLLOW_UP_EMAIL}
      [] index = 1 -> {FOLLOW_UP_CALL}
      [] OTHER     -> {URGENT_EMAIL}

(***************************************************************************)
(* C1.  contact_attempts of a Contact never decreases and never exceeds    *)
(* MAX_CONTACT_ATTEMPTS, whatever passes, dispatch results and responses   *)
(* occur.                                                                  *)
(***************************************************************************)
C1_AttemptsMonotoneAndCapped ==
    [][\A c \in DOMAIN contacts :
          /\ c \in DOMAIN contacts'
          /\ contacts'[c].contact_attempts >= contacts[c].contact_attempts
          /\ contacts'[c].contact_attempts <= MAX_CONTACT_ATTEMPTS]_vars

\* a follow-up pass has brought a Contact to MAX_CONTACT_ATTEMPTS
C1_Witness ==
    \E c \in DOMAIN contacts :
        /\ contacts[c].contact_attempts = MAX_CONTACT_ATTEMPTS
        /\ contacts[c].last_contact_attempt >= StartHour
        /\ contacts[c].next_contact_scheduled =
               contacts[c].last_contact_attempt + FOLLOW_UP_DELAY_HOURS

C3_FailedDispatchChangesNothing ==
    [][/\ \A i \in 1..Len(followRuns) :
            /\ FollowStepped(i) =>
                 LET c == Head(followRuns[i].todo)
                 IN  c \in followRuns'[i].failed =>
                        /\ followRuns'[i].session[c] = followRuns[i].session[c]
                        /\ c \notin followRuns'[i].dirty
                        /\ contacts' = contacts
            /\ FollowCommitted(i) =>
                 \A c \in followRuns[i].failed :
                    /\ contacts'[c] = contacts[c]
                    /\ ~contacts'[c].responded =>
                         /\ NeedsFollowUp(contacts'[c], now - FOLLOW_UP_DELAY_HOURS)
                         /\ contacts'[c].contact_attempts =
                                followRuns[i].session[c].contact_attempts
       /\ \A i \in 1..Len(initRuns) :
            /\ InitStepped(i) =>
                 LET p == Head(initRuns[i].todo)
                     c == FirstContact(contacts', p)
                 IN  c \in initRuns'[i].failed =>
                        /\ p \notin initRuns'[i].contacted
                        /\ c \in DOMAIN contacts => contacts'[c] = contacts[c]
            /\ InitCommitted(i) =>
                 \A c \in initRuns[i].failed :
                    /\ contacts'[c] = contacts[c]
                    /\ properties'[contacts[c].property_id] =
                           properties[contacts[c].property_id]]_vars

\* a follow-up dispatch has failed and the run is about to commit: the stored row
\* has the attempt index the run selected it for
C3_Witness ==
    \E i \in 1..Len(followRuns) :
        /\ followRuns[i].todo = <<>>
        /\ \E c \in followRuns[i].failed :
              /\ ~contacts[c].responded
              /\ contacts[c].contact_attempts = followRuns[i].session[c].contact_attempts
              /\ contacts[c].contact_attempts > 0

(***************************************************************************)
(* C4.  Every successful dispatch, by the initiation pass or by the        *)
(* follow-up pass, adds exactly one to contact_attempts, sets              *)
(* last_contact_attempt to the current time and next_contact_scheduled to  *)
(* the current time plus FOLLOW_UP_DELAY_HOURS.                            *)
(***************************************************************************)
C4_SuccessfulDispatchRecorded ==
    [][/\ \A i \in 1..Len(followRuns) :
            /\ FollowStepped(i) =>
                 LET c == Head(followRuns[i].todo)
                     after == followRuns'[i].session[c]
                 IN  c \in DOMAIN followRuns'[i].sent =>
                        /\ after.contact_attempts =
                               followRuns[i].session[c].contact_attempts + 1
                        /\ after.last_contact_attempt = now
                        /\ after.next_contact_scheduled = now + FOLLOW_UP_DELAY_HOURS
            /\ FollowCommitted(i) =>
                 \A c \in DOMAIN followRuns[i].sent :
                    /\ contacts'[c].contact_attempts = followRuns[i].sent[c].index + 1
                    /\ contacts'[c].last_contact_attempt # NULL
                    /\ contacts'[c].next_contact_scheduled =
                           contacts'[c].last_contact_attempt + FOLLOW_UP_DELAY_HOURS
       /\ \A i \in 1..Len(initRuns) :
            InitCommitted(i) =>
                 \A c \in DOMAIN initRuns[i].sent :
                    /\ contacts'[c].contact_attempts = initRuns[i].sent[c].index + 1
                    /\ contacts'[c].last_contact_attempt # NULL
                    /\ contacts'[c].next_contact_scheduled =
                           contacts'[c].last_contact_attempt + FOLLOW_UP_DELAY_HOURS]_vars

C6_ChannelByAttemptIndex ==
    /\ \A i \in 1..Len(followRuns) :
          \A c \in DOMAIN followRuns[i].sent :
              followRuns[i].sent[c].kind \in ExpectedKinds(followRuns[i].sent[c].index)
    /\ \A i \in 1..Len(initRuns) :
          \A c \in DOMAIN initRuns[i].sent :
              initRuns[i].sent[c].kind \in ExpectedKinds(initRuns[i].sent[c].index)

(***************************************************************************)
(* C7.  A Contact whose contact_attempts equals MAX_CONTACT_ATTEMPTS is    *)
(* not selected by an initiation or follow-up pass that starts, and no     *)
(* pass dispatches to it.                                                  *)
(***************************************************************************)
C7_ExhaustedNeverContacted ==
    [][/\ FollowStarted =>
            \A c \in DOMAIN StartedRun(followRuns').session :
                contacts[c].contact_attempts < MAX_CONTACT_ATTEMPTS
       /\ \A i \in 1..Len(followRuns) :
            FollowStepped(i) =>
                LET c == Head(followRuns[i].todo)
                IN  c \in DOMAIN followRuns'[i].sent =>
                        contacts[c].contact_attempts < MAX_CONTACT_ATTEMPTS
       /\ InitStarted =>
            \A p \in Range(StartedRun(initRuns').todo) :
                \A c \in ContactsOf(contacts, p) :
                    contacts[c].contact_attempts < MAX_CONTACT_ATTEMPTS
       /\ \A i \in 1..Len(initRuns) :
            InitStepped(i) =>
                \A c \in ContactsOf(contacts, Head(initRuns[i].todo)) :
                    c \in DOMAIN initRuns'[i].sent =>
                        contacts[c].contact_attempts < MAX_CONTACT_ATTEMPTS]_vars

(***************************************************************************)
(* C8.  The follow-up pass whose commit brings a Contact that has not      *)
(* responded to MAX_CONTACT_ATTEMPTS leaves it in a terminal               *)
(* ContactStatus, none of PENDING, EMAIL_SENT, PHONE_CALLED.               *)
(***************************************************************************)
C8_ExhaustedIsTerminal ==
    [][\A i \in 1..Len(followRuns) :
          FollowCommitted(i) =>
              \A c \in DOMAIN followRuns[i].sent :
                  (/\ contacts'[c].contact_attempts = MAX_CONTACT_ATTEMPTS
                   /\ contacts'[c].responded = FALSE)
                  => contacts'[c].status \in {NO_RESPONSE, CS_FAILED, BLOCKED}]_vars

(***************************************************************************)
(* C9.  When an initiation pass that sent the initial email to a PENDING   *)
(* Contact with no attempt yet commits, the Contact has contact_attempts   *)
(* 1 and, if it has not responded, passes the filter of a follow-up pass   *)
(* that fires more than FOLLOW_UP_DELAY_HOURS later, which then makes the  *)
(* phone call.                                                             *)
(***************************************************************************)
C9_InitialEmailThenPhone ==
    [][\A i \in 1..Len(initRuns) :
          InitCommitted(i) =>
              \A c \in DOMAIN initRuns[i].sent :
                  (/\ initRuns[i].sent[c].index = 0
                   /\ contacts[c].status = PENDING)
                  => /\ contacts'[c].contact_attempts = 1
                     /\ contacts'[c].responded = FALSE =>
                          /\ NeedsFollowUp(contacts'[c], now + 1)
                          /\ NextContactMethod(contacts'[c]) = FOLLOW_UP_CALL]_vars

(***************************************************************************)
(* C10.  A failed initial email leaves contact_attempts as it was and the  *)
(* Property NEW, and an initiation pass selects every available NEW        *)
(* Property whatever the time since the failure: a pass that starts right  *)
(* after the failure sends the initial email again.                        *)
(***************************************************************************)
C10_FailedInitialEmailRetried ==
    [][/\ \A i \in 1..Len(initRuns) :
            /\ InitStepped(i) =>
                 LET p == Head(initRuns[i].todo)
                     c == FirstContact(contacts', p)
                 IN  /\ c \in DOMAIN initRuns'[i].sent \cup initRuns'[i].failed
                     /\ c \in initRuns'[i].failed =>
                          /\ contacts'[c].contact_attempts = 0
                               \/ (c \in DOMAIN contacts /\ contacts'[c] = contacts[c])
                          /\ p \notin initRuns'[i].contacted
                          /\ properties'[p].status = PS_NEW
                               \/ properties'[p].status = properties[p].status
            /\ InitCommitted(i) =>
                 \A c \in initRuns[i].failed :
                    /\ contacts'[c].contact_attempts = contacts[c].contact_attempts
                    /\ properties'[contacts[c].property_id].status =
                           properties[contacts[c].property_id].status
       /\ InitStarted =>
            Range(StartedRun(initRuns').todo) =
                {p \in DOMAIN properties :
                    properties[p].status = PS_NEW /\ properties[p].still_available}]_vars

\* an initiation pass has created a Contact and failed to send to it, and a pass
\* started in the same hour has the Property to do again
C10_Witness ==
    /\ now = StartHour
    /\ \E i \in 1..Len(initRuns) :
          \E p \in Range(initRuns[i].todo) :
              \E c \in ContactsOf(contacts, p) :
                  /\ c \notin initRuns[i].failed
                  /\ contacts[c].status = PENDING
                  /\ contacts[c].email = FALSE
                  /\ contacts[c].contact_attempts = 0
                  /\ properties[p].status = PS_NEW

(***************************************************************************)
(* C11.  A pass that starts after a response has been recorded for a       *)
(* Contact does not select that Contact: not the follow-up pass, and not   *)
(* the initiation pass through the Contact's Property; and the follow-up   *)
(* pass dispatches only to Contacts that had not responded when it         *)
(* selected them.                                                          *)
(***************************************************************************)
C11_RespondedNeverSelected ==
    [][/\ FollowStarted =>
            \A c \in DOMAIN StartedRun(followRuns').session :
                contacts[c].responded = FALSE
       /\ \A i \in 1..Len(followRuns) :
            FollowStepped(i) =>
                followRuns[i].session[Head(followRuns[i].todo)].responded = FALSE
       /\ InitStarted =>
            \A p \in Range(StartedRun(initRuns').todo) :
                \A c \in ContactsOf(contacts, p) :
                    contacts[c].responded = FALSE]_vars

(***************************************************************************)
(* C12.  A follow-up pass that starts in the hour in which an earlier      *)
(* follow-up pass recorded a successful dispatch to a Contact (the row's   *)
(* next_contact_scheduled is that hour plus FOLLOW_UP_DELAY_HOURS) does    *)
(* not select that Contact, and its commit leaves the Contact's row as the *)
(* earlier pass wrote it.                                                  *)
(***************************************************************************)
C12_SecondPassSameTickIdle ==
    [][/\ FollowStarted =>
            \A c \in DOMAIN contacts :
                contacts[c].next_contact_scheduled = now + FOLLOW_UP_DELAY_HOURS
                    => c \notin DOMAIN StartedRun(followRuns').session
       /\ \A i \in 1..Len(followRuns) :
            FollowCommitted(i) =>
                \A c \in DOMAIN contacts :
                    contacts[c].next_contact_scheduled = now + FOLLOW_UP_DELAY_HOURS
                        => contacts'[c] = contacts[c]]_vars

\* a follow-up pass is running in the hour in which an earlier one recorded a
\* dispatch to a Contact that has not responded and has attempts left
C12_Witness ==
    \E i \in 1..Len(followRuns) :
        \E c \in DOMAIN contacts :
            /\ contacts[c].next_contact_scheduled = now + FOLLOW_UP_DELAY_HOURS
            /\ contacts[c].contact_attempts \in 1..(MAX_CONTACT_ATTEMPTS - 1)
            /\ contacts[c].responded = FALSE
            /\ c \notin DOMAIN followRuns[i].session

(***************************************************************************)
(* C13.  At most one instance of each of the four jobs runs at a time; a   *)
(* fire time processed while an instance of its job is running is skipped  *)
(* and starts no run, then or when the instance returns: the number of     *)
(* running instances of a job grows only in the step that processes a      *)
(* fire time with no instance of it running.  Instances of different jobs  *)
(* run side by side.                                                       *)
(***************************************************************************)
C13_SingletonPerJob ==
    [][/\ \A job \in JobIds : running[job] <= 1 /\ running'[job] <= 1
       /\ \A job \in JobIds :
            running'[job] > running[job] =>
                /\ running[job] = 0
                /\ lastTrigger' # NoTrigger
                /\ lastTrigger'.job = job
                /\ lastTrigger'.outcome = RUN
       /\ (lastTrigger' # NoTrigger /\ lastTrigger'.outcome = SKIPPED_MAX_INSTANCES
             /\ lastTrigger' # lastTrigger)
            => /\ running[lastTrigger'.job] >= 1
               /\ running' = running]_vars

\* a fire time of a job has been skipped while its instance and an instance of
\* another job are running
C13_Witness ==
    /\ lastTrigger # NoTrigger
    /\ lastTrigger.outcome = SKIPPED_MAX_INSTANCES
    /\ running[lastTrigger.job] = 1
    /\ \E other \in JobIds \ {lastTrigger.job} : running[other] = 1

(***************************************************************************)
(* C14.  As stated: a fire time processed late, no instance of its job     *)
(* running, starts a run if the lateness is within the grace period        *)
(* configured for the job and is missed otherwise, and every one of the    *)
(* four jobs has a grace period configured: 600 s for scraping, 300 s for  *)
(* initiation and for follow-ups, some bound for the cleanup.              *)
(***************************************************************************)
C14_GraceConfiguredForAll ==
    lastTrigger # NoTrigger =>
        /\ misfire_grace_time(lastTrigger.job) # UNDEFINED
        /\ lastTrigger.outcome = RUN =>
              lastTrigger.late <= misfire_grace_time(lastTrigger.job)
        /\ lastTrigger.outcome = MISSED =>
              lastTrigger.late > misfire_grace_time(lastTrigger.job)

(***************************************************************************)
(* C14, amended.  A fire time processed late, no instance of its job       *)
(* running, starts a run if the lateness is within the job's grace period  *)
(* and is missed, starting no run then or later, if it is beyond it.  The  *)
(* grace period is 600 s for scraping and 300 s for initiation and for     *)
(* follow-ups; none is configured for the cleanup, which has the           *)
(* scheduler's default.                                                    *)
(***************************************************************************)
C14_MisfireGrace ==
    [][\A job \in JobIds :
          (/\ lastTrigger' # NoTrigger
           /\ lastTrigger' # lastTrigger
           /\ lastTrigger'.job = job
           /\ running[job] = 0)
          => LET late == lastTrigger'.late
                 grace == CASE job = SCRAPE_PROPERTIES -> 600
                            [] job = INITIATE_CONTACTS -> 300
                            [] job = SEND_FOLLOW_UPS   -> 300
                            [] job = DAILY_CLEANUP     -> DefaultMisfireGrace
             IN  /\ late <= grace => /\ lastTrigger'.outcome = RUN
                                     /\ running'[job] = 1
                 /\ late > grace => /\ lastTrigger'.outcome = MISSED
                                    /\ running' = running
                 /\ job = DAILY_CLEANUP => misfire_grace_time(job) = UNDEFINED]_vars

\* a fire time of the scraping job processed 600 s late has started a run
C14_Witness ==
    /\ lastTrigger # NoTrigger
    /\ lastTrigger.job = SCRAPE_PROPERTIES
    /\ lastTrigger.late = 600
    /\ lastTrigger.outcome = RUN
    /\ running[SCRAPE_PROPERTIES] = 1

(***************************************************************************)
(* Properties of SpecClassify.                                             *)
(***************************************************************************)
\* the classification had a candidate set: the query ran, with a price and a city
Queried(rec) ==
    /\ rec.db_ok
    /\ rec.property_data.city # None
    /\ ~MissingPriceOrCity(parse_price(rec.property_data.price),
                           strip_lower(rec.property_data.city))

\* the candidate set of a classification that queried the store
Candidates(rec) ==
    existing_properties(properties, listings,
                        parse_price(rec.property_data.price),
                        strip_lower(rec.property_data.city))

\* C15: a raw listing whose address similarity with some row of the filtered
\* candidate set exceeds the address threshold is classified as a duplicate,
\* whatever the descriptions, prices, rooms and areas of the two are.
C15_HighAddressSimilarityIsDuplicate ==
    \A k \in 1..Len(classified) :
        LET rec == classified[k]
        IN  Queried(rec) =>
              \A B \in Candidates(rec) :
                 _calculate_address_similarity(rec.property_data.address,
                                               listings[B].address)
                    > ADDRESS_SIMILARITY_THRESHOLD
                 => rec.verdict

\* a listing classified as a duplicate of a candidate on its address alone: the
\* descriptions are unlike and rooms and area differ
C15_Witness ==
    \E k \in 1..Len(classified) :
        LET rec == classified[k]
            A == rec.property_data
        IN  /\ Queried(rec)
            /\ rec.verdict
            /\ \E B \in Candidates(rec) :
                 /\ _calculate_address_similarity(A.address, listings[B].address)
                       > ADDRESS_SIMILARITY_THRESHOLD
                 /\ _calculate_description_similarity(
                       Or(A.description, A.title),
                       Or(listings[B].description, listings[B].title))
                       <= DESCRIPTION_SIMILARITY_THRESHOLD
                 /\ ~_exact_specs_match(A, listings[B])

C17_MissingPriceOrCityIsDistinct ==
    \A k \in 1..Len(classified) :
        LET rec == classified[k]
            A == rec.property_data
        IN  (\/ parse_price(A.price) = NULL
             \/ A.city = None
             \/ strip_lower(A.city) = ""
             \/ ~rec.db_ok)
            => ~rec.verdict /\ rec.compared = {}

\* a listing whose price text does not parse is classified Distinct with the
\* store answering, although an available row of its city has its address
C17_Witness ==
    \E k \in 1..Len(classified) :
        LET rec == classified[k]
            A == rec.property_data
        IN  /\ rec.db_ok
            /\ A.price # <<>> /\ parse_price(A.price) = NULL
            /\ A.city = "Paris"
            /\ \E B \in DOMAIN listings :
                 /\ properties[B].still_available
                 /\ _calculate_address_similarity(A.address, listings[B].address)
                       > ADDRESS_SIMILARITY_THRESHOLD
            /\ ~rec.verdict /\ rec.compared = {}

(***************************************************************************)
(* Properties of SpecListings.                                             *)
(***************************************************************************)
\* a collection run ends in this step
ScrapeFinished == Len(scrapeRuns') < Len(scrapeRuns)

\* the rows whose source URL the collection run that is in flight has observed
ObservedRows ==
    {p \in DOMAIN listings :
        /\ listings[p].source_url \in DOMAIN classified
        /\ classified[listings[p].source_url].at = now}

\* C18: when a collection pass has observed a listing that is already stored
\* (same source URL), the stored listing's last_updated is the time of the
\* observation and its still_available is true once the pass has ended.
C18_ReobservedIsRefreshed ==
    [][ScrapeFinished =>
          \A p \in ObservedRows :
              /\ listings'[p].last_updated = now
              /\ properties'[p].still_available]_vars

\* the source URLs the collection run that is in flight has observed
ObservedUrls == {url \in DOMAIN classified : classified[url].at = now}

\* C19: once a collection pass has ended, every listing it collected and
\* classified Distinct is stored as a Listing (inserted, unless a row with its
\* source URL was stored already), and a listing it classified as a duplicate
\* has inserted no row.
C19_DistinctIsInserted ==
    [][ScrapeFinished =>
          \A url \in ObservedUrls :
              IF classified[url].verdict
              THEN \A p \in DOMAIN listings' \ DOMAIN listings :
                      listings'[p].source_url # url
              ELSE \E p \in DOMAIN listings' :
                      listings'[p].source_url = url]_vars

\* the hour a collection pass last observed the listing of a row
LastConfirmed(p) == classified[listings[p].source_url].at

\* C20: the retention pass, run while no collection pass is in flight, flags a
\* Listing unavailable exactly when it is available and no collection pass has
\* observed it within the last 7 days.
C20_FlaggedExactlyWhenStale ==
    [][daily_cleanup /\ scrapeRuns = <<>> =>
          \A p \in DOMAIN properties :
              (properties[p].still_available /\ ~properties'[p].still_available)
              <=> (/\ properties[p].still_available
                   /\ LastConfirmed(p) < now - STALENESS_HOURS)]_vars

\* the rows of a table that carry a source URL
RowsWithUrl(tbl, url) == {p \in DOMAIN tbl : tbl[p].source_url = url}

\* C21: no two stored Listings have the same source URL, and a collection run
\* that collected two priced listings with the same new URL has stored that URL
\* exactly once when it ends.
C21_UrlStoredOnce ==
    [][/\ \A p, q \in DOMAIN listings' :
            p # q => listings'[p].source_url # listings'[q].source_url
       /\ ScrapeFinished =>
            \A j, k \in 1..Len(scrapeRuns[1].added) :
                LET a == scrapeRuns[1].added[j]
                    b == scrapeRuns[1].added[k]
                IN  (j # k /\ a.source_url = b.source_url
                       /\ a.price # NULL /\ b.price # NULL)
                    => Cardinality(RowsWithUrl(listings', a.source_url)) = 1]_vars

\* C22: every Listing has at most one Contact, and a Listing that has a Contact
\* keeps exactly one in every later state.
C22_OneContactPerListing ==
    [][\A p \in DOMAIN properties :
          /\ Cardinality(ContactsOf(contacts', p)) <= 1
          /\ Cardinality(ContactsOf(contacts, p)) = 1
                => ContactsOf(contacts', p) = ContactsOf(contacts, p)]_vars

\* an initiation pass has dispatched for a Listing that had its Contact, at a
\* later hour than the first pass, and the Listing has that one Contact
C22_Witness ==
    /\ now > StartHour
    /\ \E i \in 1..Len(initRuns) :
          /\ initRuns[i].todo = <<>>
          /\ initRuns[i].failed \cup DOMAIN initRuns[i].sent # {}
    /\ \E p \in DOMAIN properties : Cardinality(ContactsOf(contacts, p)) = 1

\* an object a collection run added that satisfies the constraints of the
\* Property table by itself: it has a price and no other object of the run has
\* its source URL
SoundUnit(added, k) ==
    /\ added[k].price # NULL
    /\ \A j \in 1..Len(added) : j # k => added[j].source_url # added[k].source_url

\* C24: when a collection run ends, the result of every unit of its batch that
\* did not fail itself is persisted, whatever happened to the other units: a
\* row the run refreshed carries the refresh, and a sound object the run added
\* is stored.
C24_OtherUnitsPersisted ==
    [][ScrapeFinished =>
          LET run == scrapeRuns[1]
          IN  /\ \A p \in run.refreshed : listings'[p].last_updated = now
              /\ \A k \in 1..Len(run.added) :
                    SoundUnit(run.added, k)
                       => RowsWithUrl(listings', run.added[k].source_url) # {}]_vars

(***************************************************************************)
(* Properties of SpecFair.                                                 *)
(***************************************************************************)
\* the Contact of a Listing is no longer to be contacted, or has been
\* contacted at least once
StoppedOrAttempted(p) ==
    \/ ~properties[p].still_available
    \/ \A c \in ContactsOf(contacts, p) :
          \/ contacts[c].responded
          \/ contacts[c].contact_attempts >= 1

\* C25, in the part the horizon of the model decides: under fair scheduling,
\* with dispatches succeeding, a Contact that does not respond and whose
\* Listing stays available does not stay at zero attempts for ever; it is on
\* its way to MAX_CONTACT_ATTEMPTS.
C25_EveryTargetIsContacted ==
    \A p \in PropertyIds :
        (ContactsOf(contacts, p) # {}) ~> StoppedOrAttempted(p)

\* address and description score of a raw listing against a stored row
AddressScore(A, B) == _calculate_address_similarity(A.address, listings[B].address)
DescriptionScore(A, B) ==
    _calculate_description_similarity(Or(A.description, A.title),
                                      Or(listings[B].description, listings[B].title))

\* C26: a classification answers Duplicate exactly when some row of the
\* filtered candidate set has an address score above the address threshold, or
\* an address score above 0.6 with a description score above the description
\* threshold, or an address score above 0.4 with agreeing specifications; in
\* every other case, and when there is no candidate set, it answers Distinct.
C26_DuplicateIffSomeRule ==
    \A k \in 1..Len(classified) :
        LET rec == classified[k]
            A == rec.property_data
        IN  rec.verdict <=>
              /\ Queried(rec)
              /\ \E B \in Candidates(rec) :
                    \/ AddressScore(A, B) > ADDRESS_SIMILARITY_THRESHOLD
                    \/ /\ AddressScore(A, B) > 60
                       /\ DescriptionScore(A, B) > DESCRIPTION_SIMILARITY_THRESHOLD
                    \/ /\ AddressScore(A, B) > 40
                       /\ _exact_specs_match(A, listings[B])

\* a listing classified Duplicate by the description rule: no candidate has an
\* address score above the address threshold or agreeing specifications
C26_Witness ==
    \E k \in 1..Len(classified) :
        LET rec == classified[k]
            A == rec.property_data
        IN  /\ rec.verdict
            /\ \A B \in Candidates(rec) :
                  /\ AddressScore(A, B) <= ADDRESS_SIMILARITY_THRESHOLD
                  /\ ~_exact_specs_match(A, listings[B])

\* the absolute difference of two numbers
Distance(x, y) == IF x < y THEN y - x ELSE x - y

\* the three fields of a raw listing and of a stored row, parsed
Specs(A) == [price |-> parse_price(A.price), rooms |-> parse_rooms(A.rooms),
             area |-> parse_area(A.area)]
StoredSpecs(B) == [price |-> listings[B].price, rooms |-> listings[B].rooms,
                   area |-> listings[B].area]

\* every field for which Known holds on both sides agrees
FieldsAgree(new, existing, Known(_)) ==
    /\ (Known(new.price) /\ Known(existing.price))
          => Distance(new.price, existing.price) <= PRICE_DIFFERENCE_THRESHOLD * 100
    /\ (Known(new.rooms) /\ Known(existing.rooms)) => new.rooms = existing.rooms
    /\ (Known(new.area) /\ Known(existing.area))
          => Distance(new.area, existing.area) * 10 <= existing.area

IsKnown(x) == x # NULL
IsKnownAndNotZero(x) == x # NULL /\ x # 0

\* the listings whose verdict the specification comparison decides: no
\* candidate passes the address rule or the description rule
DecidedBySpecs(rec) ==
    /\ Queried(rec)
    /\ \A B \in Candidates(rec) :
          /\ AddressScore(rec.property_data, B) <= ADDRESS_SIMILARITY_THRESHOLD
          /\ ~ /\ AddressScore(rec.property_data, B) > 60
               /\ DescriptionScore(rec.property_data, B)
                     > DESCRIPTION_SIMILARITY_THRESHOLD

\* the verdict of such a listing, the comparison agreeing exactly when every
\* field for which Known holds on both sides agrees
SpecsRuleOver(Known(_)) ==
    \A k \in 1..Len(classified) :
        LET rec == classified[k]
        IN  DecidedBySpecs(rec) =>
              (rec.verdict <=>
                 \E B \in Candidates(rec) :
                    /\ AddressScore(rec.property_data, B) > 40
                    /\ FieldsAgree(Specs(rec.property_data), StoredSpecs(B), Known))

\* C27 as stated: the specification comparison agrees exactly when every field
\* known on both sides agrees (price within the price threshold, rooms equal,
\* area within 10% of the existing area).
C27_KnownFieldsAgree == SpecsRuleOver(IsKnown)

\* C27: the specification comparison agrees exactly when every field that is
\* known and not zero on both sides agrees; a field that is unknown or zero on
\* either side never disqualifies.
C27_KnownNonZeroFieldsAgree == SpecsRuleOver(IsKnownAndNotZero)

\* a listing of unknown area judged a duplicate by the specification comparison
C27_Witness ==
    \E k \in 1..Len(classified) :
        LET rec == classified[k]
        IN  /\ DecidedBySpecs(rec)
            /\ rec.verdict
            /\ parse_area(rec.property_data.area) = NULL

\* the stored row B is one the filter of the query is meant to leave out for the
\* raw listing A: flagged unavailable, of another city, or priced further from
\* A than the price threshold
OutsideFilter(A, B) ==
    \/ ~properties[B].still_available
    \/ strip_lower(listings[B].city) # strip_lower(A.city)
    \/ Distance(listings[B].price, parse_price(A.price))
          > PRICE_DIFFERENCE_THRESHOLD * 100

StoredRecordsOf(A) == RowsWithUrl(listings, A.url)

NoListingRemoved ==
    /\ DOMAIN listings \subseteq DOMAIN listings'
    /\ DOMAIN properties \subseteq DOMAIN properties'
    /\ \A p \in DOMAIN listings : listings'[p].source_url = listings[p].source_url

\* the Listings the retention pass selects: available, and last updated before
\* the staleness threshold
SelectedForRetention(p) ==
    /\ properties[p].still_available
    /\ listings[p].last_updated < now - STALENESS_HOURS

\* a retention step adds no Listing and leaves the Listings it does not select
\* as they are; of a Listing it selects it clears the availability flag
RetentionFlagsSelected ==
    /\ DOMAIN listings' = DOMAIN listings
    /\ DOMAIN properties' = DOMAIN properties
    /\ \A p \in DOMAIN listings :
          IF SelectedForRetention(p)
          THEN properties'[p] = [properties[p] EXCEPT !.still_available = FALSE]
          ELSE properties'[p] = properties[p] /\ listings'[p] = listings[p]

CollectionEnded == scrapePass.running /\ ~scrapePass'.running

\* C31: when a collection pass ends, normally or through an error, none of the
\* JobRun records it created is still running: each is completed or failed and
\* has an end time.
C31_JobRunsFinalized ==
    [][CollectionEnded =>
          \A k \in 1..Len(scraping_logs') :
              /\ scraping_logs'[k].status \in {LOG_COMPLETED, LOG_FAILED}
              /\ scraping_logs'[k].completed_at # NULL]_vars

\* the step is a call status update for the call SID of a row
IsStatusUpdateFor(row) ==
    \E status \in CallStatuses, duration \in Durations :
        handle_call_status_update(row.call_sid, status, duration)

\* every Communication row is kept, with its channel, content, sender-side
\* keys and sent timestamp; a row changes only in a call status update for
\* its call SID
RowsKept ==
    \A k \in 1..Len(communications) :
        /\ k <= Len(communications')
        /\ LET old == communications[k]
               new == communications'[k]
           IN  /\ new.method = old.method
               /\ new.subject = old.subject
               /\ new.sent_at = old.sent_at
               /\ new.property_id = old.property_id
               /\ new.contact_id = old.contact_id
               /\ new.call_sid = old.call_sid
               /\ new # old => old.call_sid # NoSid /\ IsStatusUpdateFor(old)

\* C32 as stated: Communication rows are never deleted, and their channel,
\* content, sent timestamp and recorded outcome are never overwritten; a row
\* changes only by a confirmation attached through its call SID.
C32_OutcomeNeverOverwritten ==
    [][/\ RowsKept
       /\ \A k \in 1..Len(communications) :
             communications'[k].status = communications[k].status]_vars

\* C32: Communication rows are never deleted, and their channel, content and
\* sent timestamp are never overwritten; a row changes only in a call status
\* update matched by its call SID, which overwrites its status and, for a
\* completed call with a duration, attaches the duration and the delivery time.
C32_OnlyCallStatusUpdates ==
    [][/\ RowsKept
       /\ \A k \in 1..Len(communications) :
             LET old == communications[k]
                 new == communications'[k]
             IN  \/ new.delivered_at = old.delivered_at /\ new.duration = old.duration
                 \/ new.status = "completed" /\ new.delivered_at = now]_vars

\* the status of a logged call was overwritten and its delivery attached, and
\* a later dispatch was logged after it
C32_Witness ==
    /\ Len(communications) >= 2
    /\ communications[1].method = CM_PHONE
    /\ communications[1].status = "completed"
    /\ communications[1].delivered_at # NULL
    /\ communications[2].sent_at >= communications[1].delivered_at


\* the step logged a successful dispatch: a Communication row was added
Dispatched == Len(communications') > Len(communications)

\* the Communication row a dispatching step added
DispatchedRow == communications'[Len(communications')]

\* C33: no initiation or follow-up pass dispatches to a target whose Property
\* is flagged unavailable at the time of the dispatch.
C33_NoDispatchWhileUnavailable ==
    [][Dispatched => properties[DispatchedRow.property_id].still_available]_vars


\* the dispatches logged for a Contact: its Communication rows
DispatchesTo(contact_id) ==
    {k \in 1..Len(communications) : communications[k].contact_id = contact_id}

\* C34: for every Contact, the number of successful dispatches over all
\* initiation and follow-up passes never exceeds MAX_CONTACT_ATTEMPTS.
C34_DispatchesBounded ==
    \A c \in 1..Len(contacts) :
        Cardinality(DispatchesTo(c)) <= MAX_CONTACT_ATTEMPTS


\* the successful initial emails logged for a Property
InitialEmailsFor(property_id) ==
    {k \in 1..Len(communications) :
        /\ communications[k].property_id = property_id
        /\ communications[k].subject = INITIAL_EMAIL}

\* C35: the initial contact email is dispatched successfully at most once per
\* Property, whatever the interleaving of initiation passes and status updates
\* through the API.
C35_InitialEmailAtMostOnce ==
    \A p \in 1..Len(properties) : Cardinality(InitialEmailsFor(p)) <= 1


\* C36: once a Contact has responded, its contact_attempts,
\* last_contact_attempt and next_contact_scheduled never change again, also
\* when the response is recorded while a follow-up pass that selected the
\* Contact is still running.
C36_RespondedFreezesAttempts ==
    [][\A c \in DOMAIN contacts :
          contacts[c].responded =>
              /\ contacts'[c].contact_attempts = contacts[c].contact_attempts
              /\ contacts'[c].last_contact_attempt = contacts[c].last_contact_attempt
              /\ contacts'[c].next_contact_scheduled = contacts[c].next_contact_scheduled]_vars


\* the step is the commit of a collection pass that found the row's source_url
\* again
ReobservedIn(p) ==
    \E i \in 1..Len(scrapeRuns) :
        /\ scrapeRuns[i].todo = <<>>
        /\ p \in scrapeRuns[i].refreshed
        /\ scrapeRuns' = RemoveAt(scrapeRuns, i)

\* C37: last_updated of a Property changes only when a collection pass
\* observes the Property again; the retention flagging and a status update
\* through the API leave it unchanged.
C37_LastUpdatedOnlyByCollection ==
    [][\A p \in DOMAIN listings :
          listings'[p].last_updated # listings[p].last_updated => ReobservedIn(p)]_vars

====
